---- MODULE Spec2Model ----
(***************************************************************************)
(* Skills Search backend: scoring, ranking and bucketing of users for a    *)
(* search request (services/scoring.py, api/routes.py), over the           *)
(* repository loaded by services/user_repository.py and the matches        *)
(* returned by services/vector_search.py.                                  *)
(*                                                                         *)
(* Numbers are fixed point, so that every product and quotient of the code *)
(* is exact here:                                                          *)
(*   distance, similarity      in 1/10000        (10000 = 1.0)             *)
(*   level weights             in tenths         (5 = 0.5)                 *)
(*   rating multipliers        as integers                                 *)
(*   raw_score, skill_score,   in 1/100000       (100000 = 1.0)            *)
(*   transfer bonus                                                        *)
(*   max_possible              in tenths         (20 = 2.0)                *)
(*   normalized_score, score,  in hundredths of a percent point, which is  *)
(*   bucket bounds             what round(x, 2) keeps (10000 = 100.0)      *)
(* so that raw_score / max_possible * 100, counted in hundredths, is the    *)
(* quotient of the two integers. round(x, 2) is modelled as                *)
(* round-half-to-even of the exact quotient.                               *)
(*                                                                         *)
(* Also modelled: the expertise labels of scoring_algorithm.py, the score  *)
(* breakdown of services/scoring.py, the flattening routines of the skills *)
(* master, and the embeddings generator (skill-embeddings.py) with the     *)
(* files and the vector index it writes.                                   *)
(***************************************************************************)
EXTENDS Integers, Sequences, FiniteSets, TLC

VARIABLES settings, repo, call, store

vars == <<settings, repo, call, store>>

\* ------------------------------------------------------------------ bounds

\* Largest number of users in user_db.json.
MaxUsers == 2

\* Largest number of vectors the index returns for a query (top_k).
MaxMatches == 2

\* Largest number of technologies a user holds under one level-3 skill.
MaxTechs == 8

\* Largest expertise multiplier handed to get_expertise_label, in hundredths.
MaxExpertise == 700

\* Largest number of matched skills a user holds when a breakdown is made.
MaxHeld == 5

\* ------------------------------------------------- configuration (config.py)

level_weight_l1 == 1
level_weight_l2 == 2
level_weight_l3 == 5
level_weight_l4 == 3

\* self.level_weights.get(level, 0.1)
DefaultLevelWeight == 1

rating_multiplier_1 == 1
rating_multiplier_2 == 2
rating_multiplier_3 == 4

\* self.rating_multipliers.get(rating, 1.0)
DefaultRatingMultiplier == 1

transfer_bonus_per_tech == 2000
transfer_bonus_cap == 15000

\* One unit of similarity (1.0) and of a score of 100.0.
SimilarityOne == 10000
ScoreHundred == 10000

\* Settings(): the score bucket thresholds, read from the environment / .env
\* as plain ints; the class declares defaults and no validator.
DefaultSettings ==
    [excellent_min_score |-> 80, strong_min_score |-> 60, good_min_score |-> 40]

SettingsChoices ==
    { DefaultSettings,
      [excellent_min_score |-> 90, strong_min_score |-> 50, good_min_score |-> 20],
      [excellent_min_score |-> 60, strong_min_score |-> 80, good_min_score |-> 40] }

\* ------------------------------------------------------------ pure helpers

Max2(a, b) == IF a >= b THEN a ELSE b
Min2(a, b) == IF a <= b THEN a ELSE b

\* round() of the exact quotient num / den (den > 0), ties to even.
RoundHalfEven(num, den) ==
    LET q == num \div den
        r == num % den
    IN  IF 2 * r < den THEN q
        ELSE IF 2 * r > den THEN q + 1
        ELSE IF q % 2 = 0 THEN q ELSE q + 1

RECURSIVE SumSeq(_)
SumSeq(s) == IF s = <<>> THEN 0 ELSE Head(s) + SumSeq(Tail(s))

RECURSIVE FlattenSeq(_)
FlattenSeq(ss) == IF ss = <<>> THEN <<>> ELSE Head(ss) \o FlattenSeq(Tail(ss))

\* ------------------------------------------------- the data the program reads

\* The skills held in the vector index, with the level in their metadata.
IndexLevel == [A |-> 1, S1 |-> 3, S2 |-> 3, T1 |-> 4]
IndexSkills == {"S1", "S2", "T1"}

\* Cosine distances the index returns (0 .. 2.0).
DistValues == {0, 2000, 9999, 15000}

\* selectedSkills entries of the compact user format.
Entry(l3, l4s, rating) ==
    [l1Id |-> "A", l2Id |-> "B", l3Id |-> l3, l4Ids |-> l4s, rating |-> rating]

RawProfiles ==
    { <<Entry("S1", <<>>, 2)>>,
      <<Entry("S1", <<"T1">>, 2)>>,
      <<Entry("S1", <<>>, 3)>>,
      <<Entry("S2", <<"T1">>, 3)>> }

Emails == <<"u1", "u2", "u3", "u4">>

\* user_db.json "users": each user's userEmail and selectedSkills.
Datasets ==
    UNION { { [i \in 1..n |-> [userEmail |-> Emails[i], selectedSkills |-> p[i]]] :
              p \in [1..n -> RawProfiles] } : n \in 0..MaxUsers }

\* --------------------------------------- repository (user_repository.py)

\* None of Python, for an id.
NoId == ""

\* Ids a skills lookup may be asked about.
LookupKeys == {"A", "B", "S1", "S2", "T1"}

\* One selectedSkills entry expanded: the level-3 skill when l3Id is set, then
\* one level-4 skill per l4Id, all at the entry's rating.
ExpandEntry(e) ==
    (IF e.l3Id # NoId
        THEN << [skill_id |-> e.l3Id, skill_level |-> 3, rating |-> e.rating,
                 parent_ids |-> <<e.l1Id, e.l2Id>>] >>
        ELSE <<>>)
    \o [j \in 1..Len(e.l4Ids) |->
            [skill_id |-> e.l4Ids[j], skill_level |-> 4, rating |-> e.rating,
             parent_ids |-> <<e.l1Id, e.l2Id, e.l3Id>>]]

\* InMemoryUserRepository._expand_users
ExpandUsers(raw_users) ==
    [i \in 1..Len(raw_users) |->
        [email  |-> raw_users[i].userEmail,
         skills |-> FlattenSeq([k \in 1..Len(raw_users[i].selectedSkills) |->
                                   ExpandEntry(raw_users[i].selectedSkills[k])])]]

\* _repository_instance is None.
NoRepository ==
    [instance |-> FALSE, load_data |-> "not called", loaded |-> FALSE,
     data |-> <<>>, users |-> <<>>]

\* InMemoryUserRepository(db_path): the object __init__ leaves, load_data
\* not yet called.
NewRepository ==
    [instance |-> TRUE, load_data |-> "not called", loaded |-> FALSE,
     data |-> <<>>, users |-> <<>>]

\* The repository once load_data has returned: the file's users read into
\* self.data and expanded into self.users.
LoadedRepository(raw_users) ==
    [instance |-> TRUE, load_data |-> "returned", loaded |-> TRUE,
     data |-> raw_users, users |-> ExpandUsers(raw_users)]

\* ------------------------------------------------ skills lookup (routes.py)

AbsentSkill == [present |-> FALSE, level |-> 0, parent_id |-> NoId]

\* All skills of all users, in the order the loops visit them.
AllUserSkills(users) == FlattenSeq([i \in 1..Len(users) |-> users[i].skills])

\* _build_skills_lookup: the first occurrence of an id wins. The expanded
\* skills carry no 'parent_id' key, so skill.get('parent_id') is None.
BuildSkillsLookup(users) ==
    LET all == AllUserSkills(users)
        First(id) == CHOOSE i \in 1..Len(all) :
                        /\ all[i].skill_id = id
                        /\ \A j \in 1..(i - 1) : all[j].skill_id # id
    IN  [id \in LookupKeys |->
            IF \E i \in 1..Len(all) : all[i].skill_id = id
               THEN [present |-> TRUE, level |-> all[First(id)].skill_level,
                     parent_id |-> NoId]
               ELSE AbsentSkill]

\* A lookup holding the hierarchy of the skills master as flatten_skills
\* records it (level and parent_id of every node): A > B > {S1 > T1, S2}.
HierarchyLookup ==
    [id \in LookupKeys |->
        CASE id = "A"  -> [present |-> TRUE, level |-> 1, parent_id |-> NoId]
          [] id = "B"  -> [present |-> TRUE, level |-> 2, parent_id |-> "A"]
          [] id = "S1" -> [present |-> TRUE, level |-> 3, parent_id |-> "B"]
          [] id = "S2" -> [present |-> TRUE, level |-> 3, parent_id |-> "B"]
          [] OTHER     -> [present |-> TRUE, level |-> 4, parent_id |-> "S1"]]

\* skills_lookup.get(id, {}) for any id
LookupGet(skills_lookup, id) ==
    IF id \in DOMAIN skills_lookup THEN skills_lookup[id] ELSE AbsentSkill

\* -------------------------------------------- vector search (vector_search.py)

\* interpret_distance: similarity = 1 - distance
interpret_distance(distance) == SimilarityOne - distance

\* VectorSearchService.search_skills: one processed result per returned vector.
ProcessResults(raw_results) ==
    [i \in 1..Len(raw_results) |->
        [skill_id   |-> raw_results[i].key,
         level      |-> IndexLevel[raw_results[i].key],
         similarity |-> interpret_distance(raw_results[i].distance)]]

\* What query_vectors can return: at most MaxMatches distinct keys, nearest
\* first.
RawResults ==
    UNION { { r \in [1..n -> [key : IndexSkills, distance : DistValues]] :
                /\ \A i, j \in 1..n : i # j => r[i].key # r[j].key
                /\ \A i \in 1..(n - 1) : r[i].distance <= r[i + 1].distance } :
            n \in 0..MaxMatches }

\* --------------------------------------------------- scoring (scoring.py)

\* self.level_weights.get(level, 0.1)
LevelWeight(level) ==
    CASE level = 1 -> level_weight_l1
      [] level = 2 -> level_weight_l2
      [] level = 3 -> level_weight_l3
      [] level = 4 -> level_weight_l4
      [] OTHER     -> DefaultLevelWeight

\* Every rating weighted alike.
RatingMultiplierFlat(rating) == DefaultRatingMultiplier

\* self.rating_multipliers.get(rating, 1.0)
RatingMultiplier(rating) ==
    CASE rating = 1 -> rating_multiplier_1
      [] rating = 2 -> rating_multiplier_2
      [] rating = 3 -> rating_multiplier_3
      [] OTHER      -> DefaultRatingMultiplier

\* max(self.rating_multipliers.values())
MaxRatingMultiplier ==
    Max2(rating_multiplier_1, Max2(rating_multiplier_2, rating_multiplier_3))

\* _build_user_skills_map: skill_id -> the user's record of it; a later entry
\* of the same id overwrites an earlier one.
BuildUserSkillsMap(user) ==
    LET sk == user.skills
        ids == { sk[i].skill_id : i \in 1..Len(sk) } \ {NoId}
        Last(id) == CHOOSE i \in 1..Len(sk) :
                       /\ sk[i].skill_id = id
                       /\ \A j \in (i + 1)..Len(sk) : sk[j].skill_id # id
    IN  [id \in ids |-> [rating     |-> sk[Last(id)].rating,
                         level      |-> sk[Last(id)].skill_level,
                         parent_ids |-> sk[Last(id)].parent_ids]]

\* _calculate_max_possible_score: 1.0 * level_weight * max_rating_multiplier
\* summed over the matched skills (in tenths).
CalculateMaxPossibleScore(matched_skills) ==
    SumSeq([i \in 1..Len(matched_skills) |->
              LevelWeight(matched_skills[i].level) * MaxRatingMultiplier])

\* A score that falls as the similarity rises: the distance in place of the
\* similarity.
SkillScoreByDistance(matched_skill, user_skill) ==
    (SimilarityOne - matched_skill.similarity) * LevelWeight(matched_skill.level)
        * RatingMultiplier(user_skill.rating)

\* similarity * level_weight * rating_multiplier
SkillScore(matched_skill, user_skill) ==
    matched_skill.similarity * LevelWeight(matched_skill.level)
        * RatingMultiplier(user_skill.rating)

\* The loop of calculate_user_score over the matched skills: one detail per
\* matched skill the user holds, in the order of the matches.
MatchedSkillsDetail(user_skills_map, matched_skills) ==
    LET held == SelectSeq(matched_skills,
                          LAMBDA m : m.skill_id \in DOMAIN user_skills_map)
    IN  [i \in 1..Len(held) |->
            [skill_id    |-> held[i].skill_id,
             level       |-> held[i].level,
             rating      |-> user_skills_map[held[i].skill_id].rating,
             similarity  |-> held[i].similarity,
             skill_score |-> SkillScore(held[i], user_skills_map[held[i].skill_id])]]

\* _get_l4_children: the level-4 entries of the lookup whose parent_id is
\* parent_id.
GetL4Children(parent_id, skills_lookup) ==
    { id \in DOMAIN skills_lookup :
        /\ skills_lookup[id].present
        /\ skills_lookup[id].level = 4
        /\ skills_lookup[id].parent_id = parent_id }

\* The first of the user's parent_ids that the lookup knows at level 3, or
\* None.
UserL3Parent(user_skill, skills_lookup) ==
    LET ps == user_skill.parent_ids
        hits == { i \in 1..Len(ps) : LookupGet(skills_lookup, ps[i]).level = 3 }
    IN  IF hits = {} THEN NoId
        ELSE ps[CHOOSE i \in hits : \A j \in hits : i <= j]

\* The pairs counted when a user holding the matched skill is not skipped.
TransferPairsOfHolders(matched_skills, user_skills_map, skills_lookup) ==
    { <<i, c>> \in (1..Len(matched_skills)) \X DOMAIN skills_lookup :
        /\ matched_skills[i].level = 3
        /\ c \in GetL4Children(matched_skills[i].skill_id, skills_lookup)
        /\ c \in DOMAIN user_skills_map
        /\ UserL3Parent(user_skills_map[c], skills_lookup) # NoId
        /\ UserL3Parent(user_skills_map[c], skills_lookup)
              # matched_skills[i].skill_id }

\* The (matched level-3, level-4 child) pairs _calculate_transfer_bonus counts.
TransferPairs(matched_skills, user_skills_map, skills_lookup) ==
    { <<i, c>> \in (1..Len(matched_skills)) \X DOMAIN skills_lookup :
        /\ matched_skills[i].level = 3
        /\ matched_skills[i].skill_id \notin DOMAIN user_skills_map
        /\ c \in GetL4Children(matched_skills[i].skill_id, skills_lookup)
        /\ c \in DOMAIN user_skills_map
        /\ UserL3Parent(user_skills_map[c], skills_lookup) # NoId
        /\ UserL3Parent(user_skills_map[c], skills_lookup)
              # matched_skills[i].skill_id }

\* The bonus per technology without the cap.
CalculateTransferBonusUncapped(matched_skills, user_skills_map, skills_lookup) ==
    LET transfer_count ==
            Cardinality(TransferPairs(matched_skills, user_skills_map, skills_lookup))
    IN  [bonus   |-> transfer_count * transfer_bonus_per_tech,
         details |-> transfer_count]

\* _calculate_transfer_bonus: per technology, capped.
CalculateTransferBonus(matched_skills, user_skills_map, skills_lookup) ==
    LET transfer_count ==
            Cardinality(TransferPairs(matched_skills, user_skills_map, skills_lookup))
    IN  [bonus   |-> Min2(transfer_count * transfer_bonus_per_tech, transfer_bonus_cap),
         details |-> transfer_count]

\* min(100.0, raw_score / max_possible * 100) rounded to two places, or 0.0
\* when max_possible is not positive.
NormalizedScore(raw_score, max_possible) ==
    IF max_possible > 0
       THEN Min2(ScoreHundred, RoundHalfEven(raw_score, max_possible))
       ELSE 0

\* ScoringService.calculate_user_score
CalculateUserScore(user, matched_skills, skills_lookup) ==
    LET user_skills_map == BuildUserSkillsMap(user)
        max_possible    == CalculateMaxPossibleScore(matched_skills)
        detail          == MatchedSkillsDetail(user_skills_map, matched_skills)
        transfer        == CalculateTransferBonus(matched_skills, user_skills_map,
                                                  skills_lookup)
        raw_score       == SumSeq([i \in 1..Len(detail) |-> detail[i].skill_score])
                              + transfer.bonus
    IN  [raw_score             |-> raw_score,
         normalized_score      |-> NormalizedScore(raw_score, max_possible),
         matched_skills_detail |-> detail,
         tech_matches          |-> Len(SelectSeq(detail, LAMBDA d : d.level = 4)),
         transfer_bonus        |-> transfer.bonus,
         has_transfer_bonus    |-> transfer.bonus > 0]

\* A sort that is not stable: an element goes before the equal keys already
\* placed (what reversing an ascending sort gives).
InsertBeforeEqualScores(sorted, x) ==
    LET n == Cardinality({ i \in 1..Len(sorted) :
                             sorted[i].normalized_score > x.normalized_score })
    IN  SubSeq(sorted, 1, n) \o <<x>> \o SubSeq(sorted, n + 1, Len(sorted))

\* sorted(users_scores, key=normalized_score, reverse=True): descending and
\* stable (equal keys keep their input order). Built by inserting each
\* element, in input order, after every element whose key is not smaller.
InsertByScore(sorted, x) ==
    LET n == Cardinality({ i \in 1..Len(sorted) :
                             sorted[i].normalized_score >= x.normalized_score })
    IN  SubSeq(sorted, 1, n) \o <<x>> \o SubSeq(sorted, n + 1, Len(sorted))

RECURSIVE SortedByScore(_)
SortedByScore(users_scores) ==
    IF users_scores = <<>> THEN <<>>
    ELSE InsertByScore(SortedByScore(SubSeq(users_scores, 1, Len(users_scores) - 1)),
                       users_scores[Len(users_scores)])

\* enumerate(sorted_users) without the start: ranks from 0.
RankFromZero(i) == i - 1

\* enumerate(sorted_users, 1): the rank given to the element at position i.
RankAt(i) == i

\* ScoringService.rank_users
RankUsers(users_scores) ==
    LET sorted_users == SortedByScore(users_scores)
    IN  [i \in 1..Len(sorted_users) |-> [sorted_users[i] EXCEPT !.rank = RankAt(i)]]

\* ------------------------------------------------- search handler (routes.py)

\* request.top_n_users is Optional[int]: None, or an int.
NoneTopN == [is_none |-> TRUE, n |-> 0]
TopNChoices == {NoneTopN} \cup { [is_none |-> FALSE, n |-> k] : k \in {0, 1, 5} }

\* seq[:top_n]
SliceTo(seq, top_n) ==
    IF top_n.is_none THEN seq
    ELSE IF top_n.n >= 0 THEN SubSeq(seq, 1, Min2(top_n.n, Len(seq)))
    ELSE SubSeq(seq, 1, Max2(Len(seq) + top_n.n, 0))

\* seq[top_n:]
SliceFrom(seq, top_n) ==
    IF top_n.is_none THEN seq
    ELSE IF top_n.n >= 0 THEN SubSeq(seq, Min2(top_n.n, Len(seq)) + 1, Len(seq))
    ELSE SubSeq(seq, Max2(Len(seq) + top_n.n, 0) + 1, Len(seq))

\* UserResult(email=.., rank=.., score=.., transfer_bonus=..): the result
\* carries the values the handler passes. models.py declares UserResult with
\* other required fields (coverage_score, display_score, ...); the rejection
\* pydantic would raise on construction is left out, so that what the handler
\* computes for the response can be examined.
UserResult(u) ==
    [email |-> u.email, rank |-> u.rank, score |-> u.score,
     transfer_bonus |-> u.transfer_bonus]

\* buckets_config of _create_score_buckets, best bucket first; x - 0.01 is one
\* hundredth below x.
BucketsConfig(s) ==
    << [name |-> "Excellent Match", min_score |-> s.excellent_min_score * 100,
        max_score |-> ScoreHundred],
       [name |-> "Strong Match", min_score |-> s.strong_min_score * 100,
        max_score |-> s.excellent_min_score * 100 - 1],
       [name |-> "Good Match", min_score |-> s.good_min_score * 100,
        max_score |-> s.strong_min_score * 100 - 1],
       [name |-> "Other Matches", min_score |-> 0,
        max_score |-> s.good_min_score * 100 - 1] >>

\* A bucket open at its lower bound.
InBucketAboveMin(score, bucket_cfg) ==
    bucket_cfg.min_score < score /\ score <= bucket_cfg.max_score

\* bucket_cfg['min_score'] <= u['score'] <= bucket_cfg['max_score']
InBucket(score, bucket_cfg) ==
    bucket_cfg.min_score <= score /\ score <= bucket_cfg.max_score

\* _create_score_buckets
CreateScoreBuckets(users, s) ==
    LET cfg == BucketsConfig(s)
    IN  [b \in 1..Len(cfg) |->
            LET bucket_users == SelectSeq(users, LAMBDA u : InBucket(u.score, cfg[b]))
            IN  [name      |-> cfg[b].name,
                 min_score |-> cfg[b].min_score,
                 max_score |-> cfg[b].max_score,
                 count     |-> Len(bucket_users),
                 users     |-> [i \in 1..Len(bucket_users) |->
                                   UserResult(bucket_users[i])]]]

\* The entry of users_scores appended for a user whose score is kept.
UserScoreEntry(user, score_data) ==
    [email              |-> user.email,
     score              |-> score_data.normalized_score,
     normalized_score   |-> score_data.normalized_score,
     raw_score          |-> score_data.raw_score,
     matched_skills     |-> [i \in 1..Len(score_data.matched_skills_detail) |->
                                score_data.matched_skills_detail[i].skill_id],
     transfer_bonus     |-> score_data.transfer_bonus,
     has_transfer_bonus |-> score_data.has_transfer_bonus,
     rank               |-> 0]

\* "Skip users with zero score": normalized_score == 0
IsSkipped(score_data) == score_data.normalized_score = 0

\* What the embeddings generator reads and writes: skills-master.json,
\* skill-embeddings.jsonl (the record of each id) and the vector index (the
\* vector of each key). Nothing of it exists before the generator's data is
\* set up.
NoStore == [master |-> <<>>, file |-> <<>>, index |-> <<>>]

\* No breakdown made.
NoBreakdown ==
    [raw_score |-> 0, normalized_score |-> 0, total_matched_skills |-> 0,
     skill_contributions |-> <<>>, transfer_bonus_total |-> 0,
     score_interpretation |-> ""]

\* What a call leaves behind; the fields a call does not set stay empty.
IdleCall ==
    [op             |-> "none",
     status         |-> 0,
     top_n_users    |-> NoneTopN,
     lookup         |-> "none",
     user           |-> [email |-> NoId, skills |-> <<>>],
     matched_skills |-> <<>>,
     all_scores     |-> <<>>,
     users_scores   |-> <<>>,
     ranked_users   |-> <<>>,
     top_users      |-> <<>>,
     buckets        |-> <<>>,
     repository     |-> NoRepository,
     expertise_multiplier |-> 0,
     label          |-> "",
     breakdown      |-> NoBreakdown,
     flattened      |-> <<>>,
     existing       |-> <<>>,
     changed        |-> <<>>,
     unchanged_ids  |-> <<>>]

\* The handler's exception path: HTTP 500.
ErrorResponse(base) == [base EXCEPT !.status = 500]

\* "No matching skills found": SearchResponse(matched_skills=[], top_users=[],
\* buckets=[]), returned before any user is read or scored.
EmptyResponse(base) == [base EXCEPT !.status = 200]

\* search_skills, from the vector search to the response.
SearchSkillsCall(top_n, raw_results) ==
    LET base == [IdleCall EXCEPT !.op = "search_skills", !.top_n_users = top_n,
                                 \* what get_repository returned
                                 !.repository = repo]
    IN  IF ~repo.instance
           \* get_repository raises; the handler answers 500
           THEN [base EXCEPT !.status = 500]
        ELSE IF raw_results = <<>>
           THEN EmptyResponse(base)
        ELSE
           LET matched_skills == ProcessResults(raw_results)
               all_users      == repo.users
               skills_lookup  == BuildSkillsLookup(all_users)
               all_scores     == [i \in 1..Len(all_users) |->
                                     CalculateUserScore(all_users[i], matched_skills,
                                                        skills_lookup)]
               kept           == SelectSeq([i \in 1..Len(all_users) |-> i],
                                           LAMBDA i : ~IsSkipped(all_scores[i]))
               users_scores   == [k \in 1..Len(kept) |->
                                     UserScoreEntry(all_users[kept[k]],
                                                    all_scores[kept[k]])]
               ranked_users   == RankUsers(users_scores)
               top            == SliceTo(ranked_users, top_n)
           IN  IF users_scores = <<>>
                  THEN [base EXCEPT !.status = 200, !.lookup = "built",
                                    !.matched_skills = matched_skills,
                                    !.all_scores = all_scores]
                  ELSE [base EXCEPT
                          !.status = 200, !.lookup = "built",
                          !.matched_skills = matched_skills,
                          !.all_scores = all_scores,
                          !.users_scores = users_scores,
                          !.ranked_users = ranked_users,
                          !.top_users = [i \in 1..Len(top) |-> UserResult(top[i])],
                          !.buckets = CreateScoreBuckets(
                                          SliceFrom(ranked_users, top_n), settings)]

\* The repository's users had rank_users been handed their dicts: each
\* ranked user's record carries the rank written into it.
RepositoryWithRanks(repository, ranked_users) ==
    [repository EXCEPT !.users =
        [i \in 1..Len(repository.users) |->
            LET u == repository.users[i]
                hits == { k \in 1..Len(ranked_users) : ranked_users[k].email = u.email }
            IN  IF hits = {} THEN u
                ELSE [email  |-> u.email,
                      skills |-> u.skills,
                      rank   |-> ranked_users[CHOOSE k \in hits : TRUE].rank]]]

\* The repository as a search leaves it. The handler reads the users
\* get_all_users returns and writes only objects built in the request:
\* rank_users sets 'rank' on the entries of users_scores, the dicts appended
\* in the scoring loop, and nothing assigns to a user, a skill or the
\* repository.
RepositoryAfterSearch(repository, ranked_users) == repository

\* ------------------------------------------------------------------ actions

Init ==
    /\ settings \in SettingsChoices
    /\ repo = NoRepository
    /\ call = IdleCall
    /\ store = NoStore

\* init_repository at startup (and again on a reload): the new repository
\* with load_data completed.
InitRepository ==
    \E raw_users \in Datasets :
        /\ call.op = "none"
        /\ repo' = LoadedRepository(raw_users)
        /\ UNCHANGED <<settings, call, store>>

\* POST /api/search
SearchSkills ==
    \E top_n \in TopNChoices, raw_results \in RawResults :
        /\ call.op = "none"
        /\ call' = SearchSkillsCall(top_n, raw_results)
        /\ repo' = RepositoryAfterSearch(repo, call'.ranked_users)
        /\ UNCHANGED <<settings, store>>

\* rank_users applied to the list a previous rank_users returned.
RankUsersAgain ==
    /\ call.op \in {"search_skills", "rank_users"}
    /\ call.ranked_users # <<>>
    /\ call' = [IdleCall EXCEPT !.op = "rank_users",
                                !.users_scores = call.ranked_users,
                                !.ranked_users = RankUsers(call.ranked_users)]
    /\ UNCHANGED <<settings, repo, store>>

\* Users as _expand_users produces them, one per raw profile.
ProfileUsers ==
    { ExpandUsers(<<[userEmail |-> Emails[1], selectedSkills |-> p]>>)[1] :
        p \in RawProfiles }

\* calculate_user_score called for one user with the matched skills and a
\* skills lookup: the one _build_skills_lookup builds from the user, or one
\* holding the hierarchy.
ScoreUser ==
    \E user \in ProfileUsers, raw_results \in RawResults,
       kind \in {"built", "hierarchy"} :
        /\ call.op = "none"
        /\ raw_results # <<>>
        /\ call' = [IdleCall EXCEPT
                      !.op = "calculate_user_score",
                      !.user = user,
                      !.lookup = kind,
                      !.matched_skills = ProcessResults(raw_results),
                      !.all_scores =
                          << CalculateUserScore(
                                 user, ProcessResults(raw_results),
                                 IF kind = "built" THEN BuildSkillsLookup(<<user>>)
                                                   ELSE HierarchyLookup) >>]
        /\ UNCHANGED <<settings, repo, store>>

\* The call returns to its caller; nothing of it is kept (the services hold
\* no per-request state).
Return ==
    /\ call.op # "none"
    /\ call' = IdleCall
    /\ UNCHANGED <<settings, repo, store>>

\* The service: startup, searches, and rank_users applied again.
Next == InitRepository \/ SearchSkills \/ RankUsersAgain \/ Return

Spec == Init /\ [][Next]_vars

\* calculate_user_score as a function of its arguments.
InitScore ==
    /\ settings = DefaultSettings
    /\ repo = NoRepository
    /\ call = IdleCall
    /\ store = NoStore

NextScore == ScoreUser \/ Return

SpecScore == InitScore /\ [][NextScore]_vars

\* ------------------------------ a reload beside readers (user_repository.py)

\* A running service: the dataset was loaded at startup.
InitReload ==
    /\ settings = DefaultSettings
    /\ repo \in { LoadedRepository(raw_users) : raw_users \in Datasets }
    /\ call = IdleCall
    /\ store = NoStore

\* init_repository, first statement:
\* _repository_instance = InMemoryUserRepository(db_path). One call at a time.
InitRepositoryNew ==
    /\ repo.load_data \in {"returned", "raised"}
    /\ repo' = NewRepository
    /\ UNCHANGED <<settings, call, store>>

\* load_data on the new instance: the file is not there, FileNotFoundError
\* leaves init_repository; the global keeps the instance.
LoadDataMissingFile ==
    /\ repo.instance /\ repo.load_data = "not called"
    /\ repo' = [repo EXCEPT !.load_data = "raised"]
    /\ UNCHANGED <<settings, call, store>>

\* load_data: self.data = json.load(f)
LoadDataRead ==
    \E raw_users \in Datasets :
        /\ repo.instance /\ repo.load_data = "not called"
        /\ repo' = [repo EXCEPT !.load_data = "read", !.data = raw_users]
        /\ UNCHANGED <<settings, call, store>>

\* load_data: self.users = self._expand_users(raw_users), and the return.
LoadDataExpand ==
    /\ repo.load_data = "read"
    /\ repo' = LoadedRepository(repo.data)
    /\ UNCHANGED <<settings, call, store>>

\* GET /api/health: get_repository and get_all_users; the call keeps the
\* repository as it was when it was obtained.
HealthCheck ==
    /\ call.op = "none"
    /\ call' = [IdleCall EXCEPT !.op = "health_check", !.status = 200,
                                !.repository = repo]
    /\ UNCHANGED <<settings, repo, store>>

NextReload ==
    \/ InitRepositoryNew
    \/ LoadDataMissingFile
    \/ LoadDataRead
    \/ LoadDataExpand
    \/ HealthCheck
    \/ Return

SpecReload == InitReload /\ [][NextReload]_vars

\* ------------------------------------ scoring over a wide hierarchy

\* Technology ids; the first MaxTechs of them are in use.
TechIds == <<"T1", "T2", "T3", "T4", "T5", "T6", "T7", "T8", "T9", "T10">>

Techs == { TechIds[t] : t \in 1..MaxTechs }

\* A lookup holding a hierarchy in which every technology is a level-4 child
\* of S1: A > B > {S1 > T1..Tn, S2}.
WideLookup ==
    [id \in {"A", "B", "S1", "S2"} \cup Techs |->
        CASE id = "A"  -> [present |-> TRUE, level |-> 1, parent_id |-> NoId]
          [] id = "B"  -> [present |-> TRUE, level |-> 2, parent_id |-> "A"]
          [] id = "S1" -> [present |-> TRUE, level |-> 3, parent_id |-> "B"]
          [] id = "S2" -> [present |-> TRUE, level |-> 3, parent_id |-> "B"]
          [] OTHER     -> [present |-> TRUE, level |-> 4, parent_id |-> "S1"]]

\* The same hierarchy after S2 was taken out of the skills master: users who
\* selected S2 before still name it.
NarrowLookup == [WideLookup EXCEPT !["S2"] = AbsentSkill]

\* Users holding S1 and, under S2, the first k technologies.
TransferHolders ==
    { ExpandUsers(<<[userEmail |-> Emails[1],
                     selectedSkills |->
                         <<Entry("S1", <<>>, 2),
                           Entry("S2", [t \in 1..k |-> TechIds[t]], 2)>>]>>)[1] :
        k \in 1..MaxTechs }

\* Users holding one level-3 skill and the first k technologies under it.
TransferUsers ==
    { ExpandUsers(<<[userEmail |-> Emails[1],
                     selectedSkills |->
                         <<Entry(l3, [t \in 1..k |-> TechIds[t]], 2)>>]>>)[1] :
        l3 \in {"S1", "S2"}, k \in 0..MaxTechs }

\* Matches on the level-3 skills.
TransferResults ==
    UNION { { r \in [1..n -> [key : {"S1", "S2"}, distance : {0, 2000, 9000}]] :
                /\ \A i, j \in 1..n : i # j => r[i].key # r[j].key
                /\ \A i \in 1..(n - 1) : r[i].distance <= r[i + 1].distance } :
            n \in 1..MaxMatches }

\* calculate_user_score called with a lookup that holds the hierarchy.
ScoreTransfer ==
    \E user \in TransferUsers \cup TransferHolders, raw_results \in TransferResults,
       kind \in {"wide", "narrow"} :
        /\ call.op = "none"
        /\ call' = [IdleCall EXCEPT
                      !.op = "calculate_user_score",
                      !.user = user,
                      !.lookup = kind,
                      !.matched_skills = ProcessResults(raw_results),
                      !.all_scores =
                          << CalculateUserScore(user, ProcessResults(raw_results),
                                                IF kind = "wide" THEN WideLookup
                                                                 ELSE NarrowLookup) >>]
        /\ UNCHANGED <<settings, repo, store>>

NextTransfer == ScoreTransfer \/ Return

SpecTransfer == InitScore /\ [][NextTransfer]_vars

\* Two users of the wide hierarchy, each with an email of their own.
TransferTeams ==
    { << [u1 EXCEPT !.email = Emails[1]], [u2 EXCEPT !.email = Emails[2]] >> :
        u1 \in TransferUsers, u2 \in TransferUsers }

\* calculate_user_score for each user of a team with a lookup that holds the
\* hierarchy, then rank_users over the scores that are not zero.
RankTransfer ==
    \E all_users \in TransferTeams, raw_results \in TransferResults :
        LET matched_skills == ProcessResults(raw_results)
            all_scores     == [i \in 1..Len(all_users) |->
                                  CalculateUserScore(all_users[i], matched_skills,
                                                     WideLookup)]
            kept           == SelectSeq([i \in 1..Len(all_users) |-> i],
                                        LAMBDA i : ~IsSkipped(all_scores[i]))
            users_scores   == [k \in 1..Len(kept) |->
                                  UserScoreEntry(all_users[kept[k]],
                                                 all_scores[kept[k]])]
        IN  /\ call.op = "none"
            /\ call' = [IdleCall EXCEPT
                          !.op = "rank_users",
                          !.lookup = "wide",
                          !.matched_skills = matched_skills,
                          !.all_scores = all_scores,
                          !.users_scores = users_scores,
                          !.ranked_users = RankUsers(users_scores)]
            /\ UNCHANGED <<settings, repo, store>>

NextTransferRank == RankTransfer \/ Return

SpecTransferRank == InitScore /\ [][NextTransferRank]_vars

\* ------------------------------------------- the worked scenarios' data

\* Profiles of the worked scenarios: one level-3 skill each, at rating 1 or 3.
ScenarioProfiles ==
    { <<Entry("S1", <<>>, 1)>>,
      <<Entry("S1", <<>>, 3)>>,
      <<Entry("S2", <<>>, 3)>> }

\* Distances of the worked scenarios: similarities 0.9, 0.8 and 0.5.
ScenarioDistances == {1000, 2000, 5000}

ScenarioDatasets ==
    UNION { { [i \in 1..n |-> [userEmail |-> Emails[i], selectedSkills |-> p[i]]] :
              p \in [1..n -> ScenarioProfiles] } : n \in 0..MaxUsers }

ScenarioResults ==
    UNION { { r \in [1..n -> [key : {"S1", "S2"}, distance : ScenarioDistances]] :
                /\ \A i, j \in 1..n : i # j => r[i].key # r[j].key
                /\ \A i \in 1..(n - 1) : r[i].distance <= r[i + 1].distance } :
            n \in 0..MaxMatches }

\* init_repository at startup over a scenario's users.
LoadScenario ==
    \E raw_users \in ScenarioDatasets :
        /\ call.op = "none"
        /\ repo' = LoadedRepository(raw_users)
        /\ UNCHANGED <<settings, call, store>>

\* POST /api/search with a scenario's matches and the default top_n_users.
SearchScenario ==
    \E raw_results \in ScenarioResults :
        /\ call.op = "none"
        /\ call' = SearchSkillsCall([is_none |-> FALSE, n |-> 5], raw_results)
        /\ repo' = RepositoryAfterSearch(repo, call'.ranked_users)
        /\ UNCHANGED <<settings, store>>

NextScenario == LoadScenario \/ SearchScenario \/ Return

SpecScenario == InitScore /\ [][NextScenario]_vars

\* ------------------------------------------------------------ observations

\* A search that reached scoring answered 200.
SearchDone == call.op = "search_skills" /\ call.status = 200

\* The user holds the matched skill m.
HoldsSkill(user, m) == \E k \in 1..Len(user.skills) : user.skills[k].skill_id = m.skill_id

\* The user holds none of the matched skills (coverage_score = 0).
HoldsNoMatch(user, matched_skills) ==
    \A j \in 1..Len(matched_skills) : ~HoldsSkill(user, matched_skills[j])

\* Every similarity of the match set lies in [0, 1].
SimilaritiesInUnitRange(matched_skills) ==
    \A j \in 1..Len(matched_skills) :
        /\ matched_skills[j].similarity >= 0
        /\ matched_skills[j].similarity <= SimilarityOne

\* The email occurs among the user results.
EmailIn(email, results) == \E k \in 1..Len(results) : results[k].email = email

\* The email occurs in some bucket of the response.
EmailInBuckets(email) ==
    \E b \in 1..Len(call.buckets) : EmailIn(email, call.buckets[b].users)

\* The users handed to _create_score_buckets: ranked_users[top_n_users:].
RankedTail == SliceFrom(call.ranked_users, call.top_n_users)

\* How many buckets of the response hold the user of this rank.
BucketsHolding(rank) ==
    Cardinality({ b \in 1..Len(call.buckets) :
                    \E k \in 1..Len(call.buckets[b].users) :
                        call.buckets[b].users[k].rank = rank })

\* The thresholds are in order inside [0, 100].
ThresholdsOrdered(s) ==
    /\ 0 <= s.good_min_score
    /\ s.good_min_score <= s.strong_min_score
    /\ s.strong_min_score <= s.excellent_min_score
    /\ s.excellent_min_score <= 100

\* raw_score / top_raw_score * 100 to two places (0 when the top is not
\* positive), computed in steps that stay inside TLC's integers.
DisplayScore(raw_score, top_raw_score) ==
    IF top_raw_score <= 0 THEN 0
    ELSE LET whole == raw_score \div top_raw_score
             x     == (raw_score % top_raw_score) * 100
             y     == (x % top_raw_score) * 100
         IN  whole * ScoreHundred + (x \div top_raw_score) * 100
                + RoundHalfEven(y, top_raw_score)

\* The bucket at position b of the response holds the user of this rank.
HeldIn(b, rank) ==
    \E k \in 1..Len(call.buckets[b].users) : call.buckets[b].users[k].rank = rank

\* ------------------------------------------------------------------ claims

\* C1: the list rank_users returns is in non-increasing raw_score order, for
\* scores computed from matches whose similarities lie in [0, 1].
C1_RankedByRawScore ==
    (SearchDone /\ SimilaritiesInUnitRange(call.matched_skills)) =>
        \A i \in 1..(Len(call.ranked_users) - 1) :
            call.ranked_users[i].raw_score >= call.ranked_users[i + 1].raw_score

\* C2: a user who holds none of the matched skills gets raw_score 0, whatever
\* the match set and the skills lookup, and is in neither top_users nor a
\* bucket of a search response.
C2_NoMatchMeansZeroAndAbsent ==
    /\ call.op = "calculate_user_score" /\ HoldsNoMatch(call.user, call.matched_skills)
          => call.all_scores[1].raw_score = 0
    /\ SearchDone =>
          \A i \in 1..Len(call.all_scores) :
              HoldsNoMatch(repo.users[i], call.matched_skills) =>
                  /\ call.all_scores[i].raw_score = 0
                  /\ ~EmailIn(repo.users[i].email, call.top_users)
                  /\ ~EmailInBuckets(repo.users[i].email)

\* C3: a user who holds a matched skill of similarity > 0 (all similarities
\* in [0, 1]) has a nonzero score and is not removed by the zero-score filter:
\* the user is among the ranked users.
C3_MatchedUserIsKept ==
    (SearchDone /\ SimilaritiesInUnitRange(call.matched_skills)) =>
        \A i \in 1..Len(call.all_scores) :
            (\E j \in 1..Len(call.matched_skills) :
                /\ HoldsSkill(repo.users[i], call.matched_skills[j])
                /\ call.matched_skills[j].similarity > 0)
            => /\ call.all_scores[i].raw_score # 0
               /\ EmailIn(repo.users[i].email, call.ranked_users)

\* C4: after rank_users the rank of every returned user is its 1-based
\* position in the returned list.
C4_RankIsPosition ==
    call.op \in {"search_skills", "rank_users"} =>
        \A i \in 1..Len(call.ranked_users) : call.ranked_users[i].rank = i

\* C4 witness: a ranked list of two users with equal sort keys.
C4_Witness ==
    /\ SearchDone
    /\ Len(call.ranked_users) >= 2
    /\ call.ranked_users[1].normalized_score = call.ranked_users[2].normalized_score
    /\ call.ranked_users[2].rank = 2

\* C5: when the ranked output is not empty the score shown for the rank-1
\* user is 100.0 and every other shown score is raw_score / top_raw_score * 100.
C5_TopShownScoreIsHundred ==
    (SearchDone /\ call.ranked_users # <<>>) =>
        \A i \in 1..Len(call.ranked_users) :
            call.ranked_users[i].score =
                DisplayScore(call.ranked_users[i].raw_score,
                             call.ranked_users[1].raw_score)

\* C6: for a non-empty match set the normalized_score calculate_user_score
\* returns lies in [0, 100].
C6_NormalizedInRange ==
    (SearchDone /\ call.matched_skills # <<>>) =>
        \A i \in 1..Len(call.all_scores) :
            /\ call.all_scores[i].normalized_score >= 0
            /\ call.all_scores[i].normalized_score <= ScoreHundred

\* C7: _create_score_buckets places every user of the ranked tail in exactly
\* one bucket, and the bucket counts sum to the length of the tail.
C7_TailPartitioned ==
    (SearchDone /\ call.ranked_users # <<>>) =>
        /\ \A i \in 1..Len(RankedTail) : BucketsHolding(RankedTail[i].rank) = 1
        /\ SumSeq([b \in 1..Len(call.buckets) |-> call.buckets[b].count])
              = Len(RankedTail)

C9_ThresholdsValidated ==
    (SearchDone /\ call.buckets # <<>>) => ThresholdsOrdered(settings)

\* C10: rank_users applied to the list rank_users returned gives the same
\* list: the same order, ranks and scores.
C10_RankIdempotent ==
    call.op = "rank_users" => call.ranked_users = call.users_scores

\* C10 witness: a list of two users with equal sort keys and different
\* raw scores ranked a second time.
C10_Witness ==
    /\ call.op = "rank_users"
    /\ Len(call.ranked_users) >= 2
    /\ call.ranked_users[1].normalized_score = call.ranked_users[2].normalized_score
    /\ call.ranked_users[1].raw_score # call.ranked_users[2].raw_score

\* The position of the entry with this email in a list of score entries.
PositionOf(entries, email) ==
    CHOOSE k \in 1..Len(entries) : entries[k].email = email

\* C11: ties are broken by input order: of two entries of rank_users' input
\* with equal sort score (normalized_score), the one that came first comes
\* first in the output and gets the smaller rank.
C11_TiesKeepInputOrder ==
    call.op \in {"search_skills", "rank_users"} =>
        \A i, j \in 1..Len(call.users_scores) :
            (i < j /\ call.users_scores[i].normalized_score
                        = call.users_scores[j].normalized_score) =>
                LET pi == PositionOf(call.ranked_users, call.users_scores[i].email)
                    pj == PositionOf(call.ranked_users, call.users_scores[j].email)
                IN  pi < pj /\ call.ranked_users[pi].rank < call.ranked_users[pj].rank

\* C11 witness: two tied entries of which the first has the smaller
\* raw_score, still first in the output.
C11_Witness ==
    /\ SearchDone
    /\ Len(call.users_scores) = 2
    /\ call.users_scores[1].normalized_score = call.users_scores[2].normalized_score
    /\ call.users_scores[1].raw_score < call.users_scores[2].raw_score
    /\ call.ranked_users[1].email = call.users_scores[1].email

\* The skills lookup calculate_user_score was called with.
CallLookup ==
    CASE call.lookup = "built" -> BuildSkillsLookup(<<call.user>>)
      [] call.lookup = "wide"  -> WideLookup
      [] call.lookup = "narrow" -> NarrowLookup
      [] OTHER                 -> HierarchyLookup

\* C12: raising the similarity of one matched skill the user holds, the user,
\* the other matches and the configuration staying the same, never lowers the
\* raw_score calculate_user_score returns.
C12_RawScoreMonotone ==
    call.op = "calculate_user_score" =>
        \A k \in 1..Len(call.matched_skills), d \in DistValues :
            (/\ HoldsSkill(call.user, call.matched_skills[k])
             /\ interpret_distance(d) >= call.matched_skills[k].similarity) =>
                CalculateUserScore(
                    call.user,
                    [call.matched_skills EXCEPT ![k].similarity = interpret_distance(d)],
                    CallLookup).raw_score
                  >= call.all_scores[1].raw_score

\* C12 witness: a user scored on two matches, holding the second, whose
\* raw_score is strictly larger once that match's similarity is raised to 1.
C12_Witness ==
    /\ call.op = "calculate_user_score"
    /\ Len(call.matched_skills) = 2
    /\ HoldsSkill(call.user, call.matched_skills[2])
    /\ call.matched_skills[2].similarity < SimilarityOne
    /\ CalculateUserScore(
           call.user,
           [call.matched_skills EXCEPT ![2].similarity = SimilarityOne],
           CallLookup).raw_score
         > call.all_scores[1].raw_score

\* The user holds exactly one skill, this one at this rating.
HoldsOnly(user, skill_id, rating) ==
    /\ Len(user.skills) = 1
    /\ user.skills[1].skill_id = skill_id
    /\ user.skills[1].rating = rating

\* The matched skills are these level-3 skills at these similarities, in
\* this order.
MatchesAre(ids, similarities) ==
    call.matched_skills =
        [k \in 1..Len(ids) |->
            [skill_id |-> ids[k], level |-> 3, similarity |-> similarities[k]]]

\* C13 (scenario C): with matches S1 at 0.8 and S2 at 0.5, U1 holding only S1
\* at rating 1 and U2 holding only S2 at rating 3, U2 is ranked first and U1
\* second.
C13_ScenarioC ==
    (SearchDone /\ MatchesAre(<<"S1", "S2">>, <<8000, 5000>>)
                /\ Len(repo.users) = 2) =>
        \A u1, u2 \in 1..2 :
            (HoldsOnly(repo.users[u1], "S1", 1) /\ HoldsOnly(repo.users[u2], "S2", 3)) =>
                /\ Len(call.ranked_users) = 2
                /\ call.ranked_users[1].email = repo.users[u2].email
                /\ call.ranked_users[1].rank = 1
                /\ call.ranked_users[2].email = repo.users[u1].email
                /\ call.ranked_users[2].rank = 2

\* C13 witness: scenario C with U1 first in the dataset.
C13_Witness ==
    /\ SearchDone
    /\ MatchesAre(<<"S1", "S2">>, <<8000, 5000>>)
    /\ Len(repo.users) = 2
    /\ HoldsOnly(repo.users[1], "S1", 1)
    /\ HoldsOnly(repo.users[2], "S2", 3)
    /\ call.ranked_users[1].email = repo.users[2].email

\* C14 (scenario A): with the single match S1 at 0.9, a user holding only S1
\* at rating 3 gets raw_score 4.86 (0.81 of coverage times 6.0 of expertise).
C14_ScenarioA ==
    (SearchDone /\ MatchesAre(<<"S1">>, <<9000>>)) =>
        \A i \in 1..Len(repo.users) :
            HoldsOnly(repo.users[i], "S1", 3) => call.all_scores[i].raw_score = 486000

\* C15: when the vector search returns no matched skills, the search answers
\* normally (200) with no top users and no buckets, and scores no user.
C15_NoMatchesIsEmptyResponse ==
    (call.op = "search_skills" /\ repo.instance /\ call.matched_skills = <<>>) =>
        /\ call.status = 200
        /\ call.top_users = <<>>
        /\ call.buckets = <<>>
        /\ call.ranked_users = <<>>
        /\ call.all_scores = <<>>

\* C15 witness: a search without matches over a loaded dataset of two users.
C15_Witness ==
    /\ call.op = "search_skills"
    /\ repo.loaded
    /\ Len(repo.users) = 2
    /\ call.matched_skills = <<>>
    /\ call.status = 200
    /\ call.top_users = <<>>

\* C16: a reload is an atomic swap: a reader that obtains the repository
\* through get_repository never holds one whose load_data has not completed.
C16_ReaderSeesCompletedLoad ==
    (call.op = "health_check" /\ call.repository.instance) =>
        call.repository.loaded

\* The query of the search in progress, asked again in the current state.
SameQueryAgain ==
    SearchSkillsCall(
        call.top_n_users,
        [k \in 1..Len(call.matched_skills) |->
            [key      |-> call.matched_skills[k].skill_id,
             distance |-> SimilarityOne - call.matched_skills[k].similarity]])

C18_SimilarityInUnitRange ==
    call.op = "search_skills" => SimilaritiesInUnitRange(call.matched_skills)

\* The technologies that count for the transfer bonus of the scored user:
\* held by the user under a level-3 skill the lookup knows, other than a
\* matched level-3 skill the user does not hold and whose child, by the
\* lookup, the technology is.
TransferableTechs ==
    { i \in 1..Len(call.user.skills) :
        /\ call.user.skills[i].skill_level = 4
        /\ \E k \in 1..Len(call.matched_skills) :
              /\ call.matched_skills[k].level = 3
              /\ ~HoldsSkill(call.user, call.matched_skills[k])
              /\ LookupGet(CallLookup, call.user.skills[i].skill_id).level = 4
              /\ LookupGet(CallLookup, call.user.skills[i].skill_id).parent_id
                    = call.matched_skills[k].skill_id
              /\ LookupGet(CallLookup, call.user.skills[i].parent_ids[3]).level = 3
              /\ call.user.skills[i].parent_ids[3] # call.matched_skills[k].skill_id }

\* C19: the transfer bonus is 0.02 per transferable technology capped at
\* 0.15: the bonus in raw_score is min(count * per_tech, cap), never above
\* the cap.
C19_TransferBonusCapped ==
    call.op = "calculate_user_score" =>
        LET score == call.all_scores[1]
            count == Cardinality(TransferableTechs)
            direct == SumSeq([i \in 1..Len(score.matched_skills_detail) |->
                                score.matched_skills_detail[i].skill_score])
        IN  /\ score.transfer_bonus
                  = Min2(count * transfer_bonus_per_tech, transfer_bonus_cap)
            /\ score.transfer_bonus <= transfer_bonus_cap
            /\ score.raw_score = direct + score.transfer_bonus

\* C19 witness: a user with more transferable technologies than the cap
\* pays for, given exactly the cap.
C19_Witness ==
    /\ call.op = "calculate_user_score"
    /\ Cardinality(TransferableTechs) * transfer_bonus_per_tech > transfer_bonus_cap
    /\ call.all_scores[1].transfer_bonus = transfer_bonus_cap

\* C20: in the search pipeline a user who does not hold a matched level-3
\* skill but holds one of its level-4 technologies (by the skills master)
\* under another level-3 skill is given a positive transfer bonus.
C20_PipelineGivesTransferBonus ==
    SearchDone =>
        \A i \in 1..Len(call.all_scores), k \in 1..Len(call.matched_skills) :
            LET user == call.repository.users[i]
                m    == call.matched_skills[k]
            IN  ( /\ m.level = 3
                  /\ ~HoldsSkill(user, m)
                  /\ \E s \in 1..Len(user.skills) :
                        /\ user.skills[s].skill_level = 4
                        /\ HierarchyLookup[user.skills[s].skill_id].parent_id = m.skill_id
                        /\ user.skills[s].parent_ids[3] # m.skill_id )
                => /\ call.all_scores[i].has_transfer_bonus
                   /\ call.all_scores[i].transfer_bonus > 0

\* The ranked user holds none of the matched level-3 skills and owes their
\* score to the transfer bonus alone.
TransferOnly(entry) ==
    /\ entry.matched_skills = <<>>
    /\ entry.has_transfer_bonus

\* The ranked user holds a matched level-3 skill.
DirectLevel3(entry) ==
    \E i \in 1..Len(entry.matched_skills), k \in 1..Len(call.matched_skills) :
        /\ call.matched_skills[k].skill_id = entry.matched_skills[i]
        /\ call.matched_skills[k].level = 3

\* C21: a user credited only through the transfer bonus is never ranked
\* above a user who holds a matched level-3 skill.
C21_TransferOnlyBelowDirect ==
    \A a, b \in 1..Len(call.ranked_users) :
        (TransferOnly(call.ranked_users[a]) /\ DirectLevel3(call.ranked_users[b]))
            => call.ranked_users[a].rank > call.ranked_users[b].rank

\* ------------------------------ expertise labels (scoring_algorithm.py)
\* Expertise multipliers are in hundredths (150 is 1.5).

\* EXPERTISE_LABELS, in the order of the dict.
EXPERTISE_LABELS ==
    << [min_val |-> 100, max_val |-> 150, label |-> "Beginner"],
       [min_val |-> 150, max_val |-> 250, label |-> "Early Career"],
       [min_val |-> 250, max_val |-> 400, label |-> "Intermediate"],
       [min_val |-> 400, max_val |-> 500, label |-> "Advanced"],
       [min_val |-> 500, max_val |-> 610, label |-> "Expert"] >>

\* A range closed at its upper end and open at its lower one.
InLabelRangeUpperClosed(range, expertise_multiplier) ==
    range.min_val < expertise_multiplier /\ expertise_multiplier <= range.max_val

\* min_val <= expertise_multiplier < max_val
InLabelRange(range, expertise_multiplier) ==
    range.min_val <= expertise_multiplier /\ expertise_multiplier < range.max_val

\* ScoringAlgorithmConfig.get_expertise_label: the label of the first range
\* that holds the value, "Expert" when none does.
GetExpertiseLabel(expertise_multiplier) ==
    LET hits == { i \in 1..Len(EXPERTISE_LABELS) :
                    InLabelRange(EXPERTISE_LABELS[i], expertise_multiplier) }
    IN  IF hits = {} THEN "Expert"
        ELSE EXPERTISE_LABELS[CHOOSE i \in hits : \A j \in hits : i <= j].label

\* get_expertise_label called with a multiplier.
LabelExpertise ==
    \E expertise_multiplier \in 0..MaxExpertise :
        /\ call.op = "none"
        /\ call' = [IdleCall EXCEPT
                      !.op = "get_expertise_label",
                      !.expertise_multiplier = expertise_multiplier,
                      !.label = GetExpertiseLabel(expertise_multiplier)]
        /\ UNCHANGED <<settings, repo, store>>

NextLabel == LabelExpertise \/ Return

SpecLabel == InitScore /\ [][NextLabel]_vars

\* C22: every multiplier in [1.0, 6.0] gets the label of its half-open
\* range, a boundary value the label of the upper range, and every value
\* from 6.1 up is Expert.
C22_ExpertiseLabelRanges ==
    call.op = "get_expertise_label" =>
        LET m == call.expertise_multiplier
        IN  /\ (100 <= m /\ m < 150) => call.label = "Beginner"
            /\ (150 <= m /\ m < 250) => call.label = "Early Career"
            /\ (250 <= m /\ m < 400) => call.label = "Intermediate"
            /\ (400 <= m /\ m < 500) => call.label = "Advanced"
            /\ (500 <= m /\ m < 610) => call.label = "Expert"
            /\ m >= 610 => call.label = "Expert"

\* C22 witness: the boundary 4.0 is labelled Advanced.
C22_Witness ==
    /\ call.op = "get_expertise_label"
    /\ call.expertise_multiplier = 400
    /\ call.label = "Advanced"

\* ------------------------------- score breakdown (scoring.py, 378-452)
\* points_contributed, raw_score and transfer_bonus_total of a breakdown are
\* in hundredths, percentage_of_total in tenths of a percent.

\* sorted(matched_skills_detail, key=skill_score, reverse=True): descending
\* and stable.
InsertByContribution(sorted, x) ==
    LET n == Cardinality({ i \in 1..Len(sorted) : sorted[i].skill_score >= x.skill_score })
    IN  SubSeq(sorted, 1, n) \o <<x>> \o SubSeq(sorted, n + 1, Len(sorted))

RECURSIVE SortedByContribution(_)
SortedByContribution(detail) ==
    IF detail = <<>> THEN <<>>
    ELSE InsertByContribution(SortedByContribution(SubSeq(detail, 1, Len(detail) - 1)),
                              detail[Len(detail)])

\* A zero total reported as the whole.
PercentageOfWhole(skill_score, raw_score) ==
    IF raw_score > 0 THEN RoundHalfEven(skill_score * 1000, raw_score) ELSE 1000

\* round((skill_score / raw_score * 100) if raw_score > 0 else 0, 1)
PercentageOfTotal(skill_score, raw_score) ==
    IF raw_score > 0 THEN RoundHalfEven(skill_score * 1000, raw_score) ELSE 0

\* The loop stops at the 80% threshold alone.
StopsAtThreshold(cumulative, total_skill_score, count) ==
    cumulative * 10 >= total_skill_score * 8

\* cumulative >= threshold and len(top_contributors) >= 3, with
\* threshold = total_skill_score * 0.8
StopsAfter(cumulative, total_skill_score, count) ==
    /\ cumulative * 10 >= total_skill_score * 8
    /\ count >= 3

\* The number of skills the loop appends before it breaks or runs out.
ContributorsCount(sorted_skills) ==
    LET total_skill_score == SumSeq([i \in 1..Len(sorted_skills) |->
                                        sorted_skills[i].skill_score])
        Cumulative(k) == SumSeq([i \in 1..k |-> sorted_skills[i].skill_score])
        stops == { k \in 1..Len(sorted_skills) :
                     StopsAfter(Cumulative(k), total_skill_score, k) }
    IN  IF stops = {} THEN Len(sorted_skills)
        ELSE CHOOSE k \in stops : \A j \in stops : k <= j

\* The interpretation of a normalized score (in hundredths).
ScoreInterpretation(normalized_score) ==
    IF normalized_score >= 8000 THEN "Excellent Match"
    ELSE IF normalized_score >= 6000 THEN "Strong Match"
    ELSE IF normalized_score >= 4000 THEN "Good Match"
    ELSE IF normalized_score >= 2000 THEN "Fair Match"
    ELSE "Weak Match"

\* ScoringService.generate_score_breakdown
GenerateScoreBreakdown(score_data) ==
    LET sorted_skills == SortedByContribution(score_data.matched_skills_detail)
        count == ContributorsCount(sorted_skills)
    IN  [raw_score            |-> RoundHalfEven(score_data.raw_score, 1000),
         normalized_score     |-> score_data.normalized_score,
         total_matched_skills |-> Len(score_data.matched_skills_detail),
         skill_contributions  |->
             [i \in 1..count |->
                 [skill_id            |-> sorted_skills[i].skill_id,
                  level               |-> sorted_skills[i].level,
                  rating              |-> sorted_skills[i].rating,
                  similarity          |-> sorted_skills[i].similarity,
                  points_contributed  |-> RoundHalfEven(sorted_skills[i].skill_score, 1000),
                  percentage_of_total |-> PercentageOfTotal(sorted_skills[i].skill_score,
                                                            score_data.raw_score)]],
         transfer_bonus_total |-> RoundHalfEven(score_data.transfer_bonus, 1000),
         score_interpretation |-> ScoreInterpretation(score_data.normalized_score)]

\* Users holding S2 and the first n technologies under it, each technology in
\* a selectedSkills entry of its own with its own rating.
BreakdownUsers(n) ==
    { ExpandUsers(<<[userEmail |-> Emails[1],
                     selectedSkills |->
                         [i \in 1..n |-> Entry("S2", <<TechIds[i]>>, r[i])]]>>)[1] :
        r \in [1..n -> {1, 3}] }

\* Similarities of the matches on the technologies.
BreakdownSimilarities == {0, 1000, 5000, 10000}

\* What the vector search returns on the technologies: the first n of them,
\* nearest first, after a match on S1 or without one.
BreakdownMatches(n) ==
    { (IF with_s1
          THEN <<[skill_id |-> "S1", level |-> 3, similarity |-> SimilarityOne]>>
          ELSE <<>>)
      \o [i \in 1..n |-> [skill_id |-> TechIds[i], level |-> 4, similarity |-> s[i]]] :
        with_s1 \in BOOLEAN,
        s \in { t \in [1..n -> BreakdownSimilarities] :
                  \A i \in 1..(n - 1) : t[i] >= t[i + 1] } }

\* calculate_user_score for a user and matches on the technologies the user
\* holds.
ScoreForBreakdown ==
    \E n \in 0..MaxHeld :
    \E user \in BreakdownUsers(n), matched_skills \in BreakdownMatches(n) :
        /\ call.op = "none"
        /\ call' = [IdleCall EXCEPT
                      !.op = "calculate_user_score",
                      !.user = user,
                      !.lookup = "wide",
                      !.matched_skills = matched_skills,
                      !.all_scores =
                          << CalculateUserScore(user, matched_skills, WideLookup) >>]
        /\ UNCHANGED <<settings, repo, store>>

\* generate_score_breakdown called with the score data just computed.
GenerateBreakdown ==
    /\ call.op = "calculate_user_score"
    /\ call' = [call EXCEPT
                  !.op = "generate_score_breakdown",
                  !.breakdown = GenerateScoreBreakdown(call.all_scores[1])]
    /\ UNCHANGED <<settings, repo, store>>

NextBreakdown == ScoreForBreakdown \/ GenerateBreakdown \/ Return

SpecBreakdown == InitScore /\ [][NextBreakdown]_vars

\* C23: with a maximum possible score of 0 calculate_user_score returns
\* normalized_score 0, and with raw_score 0 generate_score_breakdown reports
\* 0 for every percentage_of_total.
C23_ZeroDenominatorsGiveZero ==
    /\ (call.op = "calculate_user_score"
          /\ CalculateMaxPossibleScore(call.matched_skills) = 0)
       => call.all_scores[1].normalized_score = 0
    /\ (call.op = "generate_score_breakdown" /\ call.all_scores[1].raw_score = 0)
       => \A i \in 1..Len(call.breakdown.skill_contributions) :
             call.breakdown.skill_contributions[i].percentage_of_total = 0

\* C23 witness: a breakdown of a raw score of 0 that lists contributions.
C23_Witness ==
    /\ call.op = "generate_score_breakdown"
    /\ call.all_scores[1].raw_score = 0
    /\ Len(call.breakdown.skill_contributions) >= 1
    /\ \A i \in 1..Len(call.breakdown.skill_contributions) :
          call.breakdown.skill_contributions[i].percentage_of_total = 0

\* The skill_score of the user's matched skill with the given id.
ContributionOf(skill_id) ==
    LET detail == call.all_scores[1].matched_skills_detail
    IN  detail[CHOOSE i \in 1..Len(detail) : detail[i].skill_id = skill_id].skill_score

\* The skills listed in the breakdown, as ids.
ListedSkills ==
    { call.breakdown.skill_contributions[i].skill_id :
        i \in 1..Len(call.breakdown.skill_contributions) }

\* The first k listed contributions added up.
ListedCumulative(k) ==
    SumSeq([i \in 1..k |-> ContributionOf(call.breakdown.skill_contributions[i].skill_id)])

NotHeldDirectly(k) == ~HoldsSkill(call.user, call.matched_skills[k])

\* (b) the user's skill at position i is, by the lookup, a level-4 child of
\* the matched skill at position k.
HeldChildOf(i, k) ==
    /\ LookupGet(CallLookup, call.user.skills[i].skill_id).present
    /\ LookupGet(CallLookup, call.user.skills[i].skill_id).level = 4
    /\ LookupGet(CallLookup, call.user.skills[i].skill_id).parent_id
          = call.matched_skills[k].skill_id

\* (c) the level-3 parent the user recorded for the skill at position i is
\* known to the lookup and is not the matched skill at position k.
UnderAnotherLevel3(i, k) ==
    \E p \in 1..Len(call.user.skills[i].parent_ids) :
        /\ LookupGet(CallLookup, call.user.skills[i].parent_ids[p]).level = 3
        /\ \A q \in 1..(p - 1) :
              LookupGet(CallLookup, call.user.skills[i].parent_ids[q]).level # 3
        /\ call.user.skills[i].parent_ids[p] # call.matched_skills[k].skill_id

\* The (matched skill, held technology) pairs that meet (a), (b) and (c).
CountedPairs ==
    { <<k, i>> \in (1..Len(call.matched_skills)) \X (1..Len(call.user.skills)) :
        /\ call.matched_skills[k].level = 3
        /\ NotHeldDirectly(k)
        /\ HeldChildOf(i, k)
        /\ UnderAnotherLevel3(i, k) }

\* C25: a technology counts toward the transfer bonus only when the user
\* does not hold the matched level-3 skill, the technology is a level-4
\* child of it that the user holds, and the user's level-3 parent of it is
\* known to the lookup and differs from the matched skill; a user who holds
\* every matched level-3 skill gets no transfer credit.
C25_TransferCountConditions ==
    call.op = "calculate_user_score" =>
        LET score == call.all_scores[1]
        IN  /\ score.has_transfer_bonus <=> CountedPairs # {}
            /\ score.transfer_bonus < transfer_bonus_cap
                  => score.transfer_bonus
                        = Cardinality(CountedPairs) * transfer_bonus_per_tech
            /\ (\A k \in 1..Len(call.matched_skills) :
                    call.matched_skills[k].level = 3 => ~NotHeldDirectly(k))
                  => score.transfer_bonus = 0

\* C25 witness: the user holds the matched S1 and, under S2, technologies
\* that are children of S1; no transfer credit is given.
C25_Witness ==
    /\ call.op = "calculate_user_score"
    /\ call.lookup = "wide"
    /\ \E k \in 1..Len(call.matched_skills) :
          /\ call.matched_skills[k].level = 3
          /\ ~NotHeldDirectly(k)
          /\ \E i \in 1..Len(call.user.skills) :
                HeldChildOf(i, k) /\ UnderAnotherLevel3(i, k)
    /\ call.all_scores[1].transfer_bonus = 0

\* How many times the email occurs in top_users and in the buckets together.
Occurrences(email) ==
    Cardinality({ i \in 1..Len(call.top_users) : call.top_users[i].email = email })
    + SumSeq([b \in 1..Len(call.buckets) |->
                Cardinality({ i \in 1..Len(call.buckets[b].users) :
                                call.buckets[b].users[i].email = email })])

\* C26: every ranked user appears exactly once in the response, in
\* top_users (the first top_n_users by rank) or in exactly one bucket.
C26_RankedUserAppearsOnce ==
    SearchDone =>
        /\ \A i \in 1..Len(call.ranked_users) :
              Occurrences(call.ranked_users[i].email) = 1
        /\ call.top_n_users.is_none
              \/ \A i \in 1..Len(call.top_users) :
                    /\ i <= call.top_n_users.n
                    /\ call.top_users[i].email = call.ranked_users[i].email

\* ------------------------------------ the skills master and its flattening
\* (skill-embeddings.py, user-skills-search.py, user_repository.py)

\* The ids a skills master can hold and the level of each: A > B > {S1, S2},
\* with the technology T1 under S1 or under S2.
MasterIds == {"A", "B", "S1", "S2", "T1"}

MasterLevel == [A |-> 1, B |-> 2, S1 |-> 3, S2 |-> 3, T1 |-> 4]

\* The titles a node has had.
MasterTitles ==
    [A  |-> {"Tech", "Technology"},
     B  |-> {"Cloud", "Cloud Computing"},
     S1 |-> {"Serverless"},
     S2 |-> {"Security"},
     T1 |-> {"Lambda"}]

\* What a skills master is made of: the nodes it holds (with every node its
\* parent), the title of each, and the skill T1 is under.
MasterShapes ==
    { m \in [present : SUBSET MasterIds,
             title   : [MasterIds -> UNION { MasterTitles[id] : id \in MasterIds }],
             t1_under : {"S1", "S2"}] :
        /\ \A id \in MasterIds : m.title[id] \in MasterTitles[id]
        \* titles and place of absent nodes are not part of the file
        /\ \A id \in MasterIds \ m.present :
              m.title[id] = CHOOSE t \in MasterTitles[id] : TRUE
        /\ "T1" \notin m.present => m.t1_under = "S1"
        /\ "B" \in m.present => "A" \in m.present
        /\ "S1" \in m.present => "B" \in m.present
        /\ "S2" \in m.present => "B" \in m.present
        /\ "T1" \in m.present => m.t1_under \in m.present }

\* The children of a node, in file order.
ChildIds(m, id) ==
    LET all == CASE id = "A"  -> <<"B">>
                 [] id = "B"  -> <<"S1", "S2">>
                 [] id = "S1" -> IF m.t1_under = "S1" THEN <<"T1">> ELSE <<>>
                 [] id = "S2" -> IF m.t1_under = "S2" THEN <<"T1">> ELSE <<>>
                 [] OTHER     -> <<>>
    IN  SelectSeq(all, LAMBDA c : c \in m.present)

\* A node of skills-master.json: id, level, title, description and the
\* nested "skills".
RECURSIVE MasterNode(_, _)
MasterNode(m, id) ==
    [id          |-> id,
     level       |-> MasterLevel[id],
     title       |-> m.title[id],
     description |-> "about " \o id,
     skills      |-> [k \in 1..Len(ChildIds(m, id)) |-> MasterNode(m, ChildIds(m, id)[k])]]

\* skills-master.json: the list of the level-1 nodes.
MasterList(m) == IF "A" \in m.present THEN <<MasterNode(m, "A")>> ELSE <<>>

MasterLists == { MasterList(m) : m \in MasterShapes }

\* recurse of flatten_skills: the node, then its children with the node as
\* parent and the node appended to the ancestors.
RECURSIVE FlattenSkillsNode(_, _, _)
FlattenSkillsNode(node, parent_id, ancestor_ids) ==
    << [id           |-> node.id,
        level        |-> node.level,
        title        |-> node.title,
        description  |-> node.description,
        parent_id    |-> parent_id,
        ancestor_ids |-> ancestor_ids] >>
    \o FlattenSeq([k \in 1..Len(node.skills) |->
                     FlattenSkillsNode(node.skills[k], node.id,
                                       ancestor_ids \o <<node.id>>)])

\* flatten_skills (skill-embeddings.py)
flatten_skills(master_list) ==
    FlattenSeq([k \in 1..Len(master_list) |->
                  FlattenSkillsNode(master_list[k], NoId, <<>>)])

\* seq[::-1]
Reversed(seq) == [i \in 1..Len(seq) |-> seq[Len(seq) + 1 - i]]

\* recurse of flatten_skills_tree: parent_chain runs from level 1 to the
\* parent; ancestor_ids is the chain reversed.
RECURSIVE FlattenTreeNode(_, _)
FlattenTreeNode(node, parent_chain) ==
    << [id           |-> node.id,
        level        |-> node.level,
        title        |-> node.title,
        description  |-> node.description,
        parent_id    |-> IF parent_chain = <<>> THEN NoId
                         ELSE parent_chain[Len(parent_chain)],
        ancestor_ids |-> Reversed(parent_chain)] >>
    \o FlattenSeq([k \in 1..Len(node.skills) |->
                     FlattenTreeNode(node.skills[k], parent_chain \o <<node.id>>)])

\* flatten_skills_tree (user-skills-search.py); the entries of skillById in
\* insertion order.
flatten_skills_tree(master_list) ==
    FlattenSeq([k \in 1..Len(master_list) |-> FlattenTreeNode(master_list[k], <<>>)])

\* InMemoryUserRepository._flatten_skills_hierarchy; the entries of the
\* lookup in insertion order. level is skill.get('level', len(parent_ids) + 1).
RECURSIVE flatten_skills_hierarchy(_, _)
flatten_skills_hierarchy(skills_array, parent_ids) ==
    FlattenSeq([k \in 1..Len(skills_array) |->
        << [id         |-> skills_array[k].id,
            title      |-> skills_array[k].title,
            level      |-> skills_array[k].level,
            parent_ids |-> parent_ids] >>
        \o flatten_skills_hierarchy(skills_array[k].skills,
                                    parent_ids \o <<skills_array[k].id>>)])

\* One of the flattening routines applied to a skills master.
FlattenSkills ==
    \E master_list \in MasterLists :
        /\ call.op = "none"
        /\ call' = [IdleCall EXCEPT !.op = "flatten_skills",
                                    !.flattened = flatten_skills(master_list)]
        /\ UNCHANGED <<settings, repo, store>>

FlattenSkillsTree ==
    \E master_list \in MasterLists :
        /\ call.op = "none"
        /\ call' = [IdleCall EXCEPT !.op = "flatten_skills_tree",
                                    !.flattened = flatten_skills_tree(master_list)]
        /\ UNCHANGED <<settings, repo, store>>

FlattenSkillsHierarchy ==
    \E master_list \in MasterLists :
        /\ call.op = "none"
        /\ call' = [IdleCall EXCEPT !.op = "_flatten_skills_hierarchy",
                                    !.flattened = flatten_skills_hierarchy(master_list, <<>>)]
        /\ UNCHANGED <<settings, repo, store>>

NextFlatten == FlattenSkills \/ FlattenSkillsTree \/ FlattenSkillsHierarchy \/ Return

SpecFlatten == InitScore /\ [][NextFlatten]_vars

\* The list of ancestors a flattened node carries.
AncestorsOf(node) ==
    IF call.op = "_flatten_skills_hierarchy" THEN node.parent_ids
                                            ELSE node.ancestor_ids

\* The level the flattening gave to the node with the id.
FlattenedLevel(id) ==
    LET hits == { i \in 1..Len(call.flattened) : call.flattened[i].id = id }
    IN  IF hits = {} THEN 0 ELSE call.flattened[CHOOSE i \in hits : TRUE].level

\* C27: in the output of every flattening routine each node's ancestors run
\* from the top ancestor to the immediate parent (none for a root), the
\* parent_id is the last of them, and there are level - 1 of them.
C27_AncestorsTopToParent ==
    call.op \in {"flatten_skills", "flatten_skills_tree", "_flatten_skills_hierarchy"} =>
        \A i \in 1..Len(call.flattened) :
            LET node == call.flattened[i]
                anc  == AncestorsOf(node)
            IN  /\ Len(anc) = node.level - 1
                /\ \A k \in 1..Len(anc) : FlattenedLevel(anc[k]) = k
                /\ call.op # "_flatten_skills_hierarchy"
                      => node.parent_id = (IF anc = <<>> THEN NoId ELSE anc[Len(anc)])

\* ------------------------- the embeddings generator (skill-embeddings.py)

\* skill_map = {s["id"]: s for s in flattened_skills}
SkillMap(flattened_skills) ==
    [id \in { flattened_skills[i].id : i \in 1..Len(flattened_skills) } |->
        flattened_skills[CHOOSE i \in 1..Len(flattened_skills) :
                            /\ flattened_skills[i].id = id
                            /\ \A j \in (i + 1)..Len(flattened_skills) :
                                  flattened_skills[j].id # id]]

\* {2: "capability", 3: "skill", 4: "technology"}.get(level, "skill")
SkillType(level) ==
    CASE level = 2 -> "capability"
      [] level = 4 -> "technology"
      [] OTHER     -> "skill"

\* compose_embedding_text: "<title> - <description>", then the parent and
\* grandparent titles for a skill that has them, or the parent title alone.
compose_embedding_text(skill, skill_map) ==
    LET head == skill.title \o " - " \o skill.description
    IN  IF skill.level >= 2 /\ skill.parent_id # NoId
           THEN IF skill.level >= 3 /\ Len(skill.ancestor_ids) >= 2
                   THEN head \o " This is a " \o skill_map[skill.parent_id].title
                             \o " " \o SkillType(skill.level)
                             \o " within the broader "
                             \o skill_map[skill.ancestor_ids[Len(skill.ancestor_ids) - 1]].title
                             \o " domain."
                   ELSE head \o " This is part of "
                             \o skill_map[skill.parent_id].title \o "."
           ELSE head

\* The vector Bedrock returns for a text.
EmbedText(text) == [embedding_of |-> text]

\* The comparison of detect_changes without the title.
ContentChangedButTitle(skill, existing) ==
    \/ skill.description # existing.description
    \/ skill.parent_id # existing.parent_id
    \/ skill.ancestor_ids # existing.ancestor_ids

\* content_changed of detect_changes
ContentChanged(skill, existing) ==
    \/ skill.title # existing.title
    \/ skill.description # existing.description
    \/ skill.parent_id # existing.parent_id
    \/ skill.ancestor_ids # existing.ancestor_ids

\* detect_changes: the new or modified skills, and the ids of the others,
\* each in the order of new_skills.
detect_changes(new_skills, existing_embeddings) ==
    LET IsChanged(skill) ==
            \/ skill.id \notin DOMAIN existing_embeddings
            \/ ContentChanged(skill, existing_embeddings[skill.id])
        unchanged == SelectSeq(new_skills, LAMBDA skill : ~IsChanged(skill))
    IN  [changed       |-> SelectSeq(new_skills, IsChanged),
         unchanged_ids |-> [i \in 1..Len(unchanged) |-> unchanged[i].id]]

\* The record main keeps for a skill it has embedded.
EmbeddedRecord(skill, skill_map) ==
    [id             |-> skill.id,
     level          |-> skill.level,
     title          |-> skill.title,
     description    |-> skill.description,
     parent_id      |-> skill.parent_id,
     ancestor_ids   |-> skill.ancestor_ids,
     embedding_text |-> compose_embedding_text(skill, skill_map),
     vector         |-> EmbedText(compose_embedding_text(skill, skill_map))]

\* existing_embeddings after stage 3: the loaded records, with a new record
\* for every changed skill.
EmbeddingsAfterStage3(changed_skills, skill_map, existing_embeddings) ==
    LET changed_ids == { changed_skills[i].id : i \in 1..Len(changed_skills) }
    IN  [id \in DOMAIN existing_embeddings \cup changed_ids |->
            IF id \in changed_ids
               THEN EmbeddedRecord(skill_map[id], skill_map)
               ELSE existing_embeddings[id]]

\* save_embeddings_jsonl: one line per current skill that has a vector, with
\* the skill's current fields and the kept embedding_text and vector.
save_embeddings_jsonl(all_skills, existing_embeddings) ==
    LET skill_map == SkillMap(all_skills)
    IN  [id \in DOMAIN skill_map \cap DOMAIN existing_embeddings |->
            [id             |-> id,
             level          |-> skill_map[id].level,
             title          |-> skill_map[id].title,
             description    |-> skill_map[id].description,
             parent_id      |-> skill_map[id].parent_id,
             ancestor_ids   |-> skill_map[id].ancestor_ids,
             embedding_text |-> existing_embeddings[id].embedding_text,
             vector         |-> existing_embeddings[id].vector]]

\* The index after put_vectors of the records of the current skills: a key
\* put is written over, every other key stays.
IndexAfterUpload(index, all_skills, existing_embeddings) ==
    LET put == { all_skills[i].id : i \in 1..Len(all_skills) }
                  \cap DOMAIN existing_embeddings
    IN  [key \in DOMAIN index \cup put |->
            IF key \in put
               THEN [vector   |-> existing_embeddings[key].vector,
                     title    |-> existing_embeddings[key].title,
                     level    |-> existing_embeddings[key].level,
                     parent_id |-> existing_embeddings[key].parent_id,
                     ancestor_ids |-> existing_embeddings[key].ancestor_ids]
               ELSE index[key]]

\* The skills masters the generator is run on: the level-1 title stays.
GeneratorMasters ==
    { MasterList(m) : m \in { x \in MasterShapes : x.title["A"] = "Tech" } }

\* The generator's data before its first run: a skills master, no
\* embeddings file, an empty index.
InitGenerator ==
    /\ settings = DefaultSettings
    /\ repo = NoRepository
    /\ call = IdleCall
    /\ store \in { [master |-> master_list, file |-> <<>>, index |-> <<>>] :
                     master_list \in GeneratorMasters }

\* skills-master.json is edited between two runs.
EditMaster ==
    \E master_list \in GeneratorMasters :
        /\ call.op = "none"
        /\ master_list # store.master
        /\ store' = [store EXCEPT !.master = master_list]
        /\ UNCHANGED <<settings, repo, call>>

\* main, run to "COMPLETED SUCCESSFULLY".
RunGenerator ==
    LET flattened_skills    == flatten_skills(store.master)
        skill_map           == SkillMap(flattened_skills)
        loaded              == store.file
        changes             == detect_changes(flattened_skills, loaded)
        existing_embeddings == EmbeddingsAfterStage3(changes.changed, skill_map, loaded)
    IN  /\ call.op = "none"
        /\ store' = [store EXCEPT
                       !.file = save_embeddings_jsonl(flattened_skills,
                                                      existing_embeddings),
                       !.index = IndexAfterUpload(store.index, flattened_skills,
                                                  existing_embeddings)]
        /\ call' = [IdleCall EXCEPT !.op = "main",
                                    !.flattened = flattened_skills,
                                    !.existing = loaded,
                                    !.changed = changes.changed,
                                    !.unchanged_ids = changes.unchanged_ids]
        /\ UNCHANGED <<settings, repo>>

\* The run is over.
ReturnFromMain ==
    /\ call.op = "main"
    /\ call' = IdleCall
    /\ UNCHANGED <<settings, repo, store>>

NextGenerator == EditMaster \/ RunGenerator \/ ReturnFromMain

SpecGenerator == InitGenerator /\ [][NextGenerator]_vars

\* C28: detect_changes puts every current skill in exactly one of changed and
\* unchanged; a skill is unchanged exactly when an existing record has its id
\* with equal title, description, parent_id and ancestor_ids; a new id is
\* changed.
C28_DetectChangesPartitions ==
    call.op = "main" =>
        LET changed_ids   == { call.changed[i].id : i \in 1..Len(call.changed) }
            unchanged_ids == { call.unchanged_ids[i] : i \in 1..Len(call.unchanged_ids) }
        IN  /\ Len(call.changed) + Len(call.unchanged_ids) = Len(call.flattened)
            /\ changed_ids \cap unchanged_ids = {}
            /\ \A i \in 1..Len(call.flattened) :
                  LET skill == call.flattened[i]
                  IN  /\ skill.id \in changed_ids \cup unchanged_ids
                      /\ skill.id \in unchanged_ids <=>
                            /\ skill.id \in DOMAIN call.existing
                            /\ call.existing[skill.id].title = skill.title
                            /\ call.existing[skill.id].description = skill.description
                            /\ call.existing[skill.id].parent_id = skill.parent_id
                            /\ call.existing[skill.id].ancestor_ids = skill.ancestor_ids
                      /\ skill.id \notin DOMAIN call.existing => skill.id \in changed_ids

\* C28 witness: a run that finds a renamed skill changed, a new skill
\* changed, and another skill unchanged.
C28_Witness ==
    /\ call.op = "main"
    /\ \E i \in 1..Len(call.changed) :
          /\ call.changed[i].id \in DOMAIN call.existing
          /\ call.changed[i].title # call.existing[call.changed[i].id].title
    /\ \E i \in 1..Len(call.changed) : call.changed[i].id \notin DOMAIN call.existing
    /\ call.unchanged_ids # <<>>

\* C29: after a run every current skill's stored embedding_text, and with it
\* its vector, is compose_embedding_text of the skill against the current
\* master.
C29_EmbeddingTextIsCurrent ==
    call.op = "main" =>
        LET flattened_skills == flatten_skills(store.master)
        IN  \A i \in 1..Len(flattened_skills) :
               LET skill == flattened_skills[i]
                   text  == compose_embedding_text(skill, SkillMap(flattened_skills))
               IN  /\ skill.id \in DOMAIN store.file
                   /\ store.file[skill.id].embedding_text = text
                   /\ store.file[skill.id].vector = EmbedText(text)

\* C30: after a run the ids in the vector index, the ids written to
\* skill-embeddings.jsonl and the ids of the current skills master are the
\* same set.
C30_IndexFileMasterAgree ==
    call.op = "main" =>
        LET master_ids == { call.flattened[i].id : i \in 1..Len(call.flattened) }
        IN  /\ DOMAIN store.file = master_ids
            /\ DOMAIN store.index = DOMAIN store.file

====
